---- MODULE Spec2Model ----
(***************************************************************************)
(* Model of qlever's `osm-update` command                                  *)
(* (src/src/qlever/commands/osm_update.py): OsmUpdateCommand.execute and   *)
(* OsmUpdateCommand.execute_olu, one action per statement group, with the  *)
(* calls made to the collaborators (show, os.path.exists, log,             *)
(* Containerize.containerize_command, run_command) recorded in `trace`.    *)
(*                                                                         *)
(* An optional Python value (None or a str) is a sequence: << >> is None   *)
(* and <<s>> is the string s.  Strings are TLA+ strings, joined with \o.   *)
(***************************************************************************)
EXTENDS Integers, Sequences, FiniteSets, TLC

VARIABLES
    planet_replication_server_url, \* self.planet_replication_server_url
    fs,                 \* the paths that exist on the local filesystem
    args,               \* the parsed arguments of the current invocation
    pc,                 \* position of the current invocation in the code
    granularity,        \* local of execute
    replication_server, \* local of execute / parameter of execute_olu
    sparql_endpoint,    \* local of execute_olu
    container_name,     \* local of execute_olu
    olu_cmd,            \* local of execute_olu, lines 96-111 (inner command)
    containerized,      \* olu_cmd as rebound at line 113: << >> before that
    olu_result,         \* what execute_olu returned: << >> while running
    result,             \* what execute returned: << >> while running
    trace,              \* collaborator calls of the current invocation
    prev,               \* request and containerize call of the previous
                        \* invocation that built one: << >> if none yet
    invocations         \* number of invocations of execute so far

vars == <<planet_replication_server_url, fs, args, pc, granularity,
          replication_server, sparql_endpoint, container_name, olu_cmd,
          containerized, olu_result, result, trace, prev, invocations>>

locals == <<granularity, replication_server, sparql_endpoint, container_name,
            olu_cmd, containerized, olu_result>>

----------------------------------------------------------------------------
(* Bounds and input domains *)

MaxInvocations == 2

None == << >>

Some(s) == <<s>>

\* choices=["minute", "hour", "day"]
Granularities == {"minute", "hour", "day"}

Paths == {"region.poly"}

PolyfileArgs == {None, Some("")} \cup {Some(p) : p \in Paths}

ReplicationServerArgs == {None, Some(""), Some("https://download.example/updates/")}

\* the values taken from the Qleverfile: data.name, server.host_name,
\* server.port, server.access_token
Qleverfiles ==
    { [name |-> "myregion", host_name |-> "localhost", port |-> 7001,
       access_token |-> "tok"],
      [name |-> "nl", host_name |-> "qlever.example", port |-> 80,
       access_token |-> "s3cret"] }

Requests ==
    { [granularity |-> <<g>>, polyfile |-> p, replication_server |-> r,
       show |-> s, name |-> q.name, host_name |-> q.host_name,
       port |-> q.port, access_token |-> q.access_token] :
         g \in Granularities, p \in PolyfileArgs, r \in ReplicationServerArgs,
         s \in BOOLEAN, q \in Qleverfiles }

NoArgs ==
    [granularity |-> <<"">>, polyfile |-> None, replication_server |-> None,
     show |-> FALSE, name |-> "", host_name |-> "", port |-> 0,
     access_token |-> ""]

----------------------------------------------------------------------------
(* Python helpers *)

\* truth value of an optional str: None and "" are false
Truthy(opt) == opt # None /\ opt[1] # ""

\* f"{port}" of an int
FormatInt(n) == ToString(n)

----------------------------------------------------------------------------
(* Collaborators *)

\* QleverCommand.show(text, only_show): the text goes to the log
show(text, only_show) ==
    [op |-> "show", text |-> text, only_show |-> only_show]

\* os.path.exists(path)
os_path_exists(path) == path \in fs

exists_call(path) ==
    [op |-> "os.path.exists", path |-> path, found |-> os_path_exists(path)]

log_error(text) == [op |-> "log.error", text |-> text]

log_info(text) == [op |-> "log.info", text |-> text]

\* the arguments of the call at lines 113-122
containerize_call(cmd, name) ==
    [op |-> "containerize_command",
     cmd |-> cmd,
     container_system |-> "docker",
     run_subcommand |-> "run --rm",
     image_name |-> "olu:latest",
     container_name |-> name,
     volumes |-> << <<"$(pwd)", "/update">> >>,
     working_directory |-> "/update",
     use_bash |-> FALSE]

\* Containerize.containerize_command: the invocation it wraps the call into
containerize_command(call) ==
    [command |-> call.cmd,
     containerRuntime |-> call.container_system,
     runtimeFlags |-> call.run_subcommand,
     image |-> call.image_name,
     containerName |-> call.container_name,
     volumeMounts |-> call.volumes,
     workingDirectory |-> call.working_directory,
     shellWrapper |-> call.use_bash]

\* run_command(cmd, show_output=True): how the child process can end
run_command_outcomes == {"exit_zero", "exit_nonzero", "launch_failure"}

\* run_command raises an Exception unless the child exits with status zero
run_command_raises(outcome) == outcome # "exit_zero"

run_call(cmd, outcome) ==
    [op |-> "run_command", cmd |-> cmd, show_output |-> TRUE,
     outcome |-> outcome]

----------------------------------------------------------------------------
(* State after construction: __init__ *)

Init ==
    /\ planet_replication_server_url = "https://planet.osm.org/replication/"
    /\ fs \in SUBSET Paths
    /\ args = NoArgs
    /\ pc = "idle"
    /\ granularity = ""
    /\ replication_server = ""
    /\ sparql_endpoint = ""
    /\ container_name = ""
    /\ olu_cmd = ""
    /\ containerized = None
    /\ olu_result = None
    /\ result = None
    /\ trace = << >>
    /\ prev = None
    /\ invocations = 0

----------------------------------------------------------------------------
(* execute *)

ContainerizeCalls == { i \in 1..Len(trace) : trace[i].op = "containerize_command" }

\* the CLI calls execute(args); a finished invocation may be followed by another
Invoke ==
    /\ pc \in {"idle", "done"}
    /\ invocations < MaxInvocations
    /\ \E a \in Requests : args' = a
    /\ pc' = "resolve"
    /\ granularity' = ""
    /\ replication_server' = ""
    /\ sparql_endpoint' = ""
    /\ container_name' = ""
    /\ olu_cmd' = ""
    /\ containerized' = None
    /\ olu_result' = None
    /\ result' = None
    /\ trace' = << >>
    /\ prev' = IF ContainerizeCalls # {}
               THEN Some([args |-> args,
                          call |-> trace[CHOOSE i \in ContainerizeCalls : TRUE]])
               ELSE prev
    /\ invocations' = invocations + 1
    /\ UNCHANGED <<planet_replication_server_url, fs>>

\* a variant of lines 72-77 that puts the granularity behind an override too
ResolveReplicationServer_AppendsGranularity ==
    /\ pc = "resolve"
    /\ granularity' = args.granularity[1]
    /\ replication_server' =
         (IF Truthy(args.replication_server)
          THEN args.replication_server[1]
          ELSE planet_replication_server_url) \o granularity' \o "/"
    /\ pc' = "describe"
    /\ UNCHANGED <<planet_replication_server_url, fs, args, sparql_endpoint,
                   container_name, olu_cmd, containerized, olu_result, result,
                   trace, prev, invocations>>

\* lines 72-77
ResolveReplicationServer ==
    /\ pc = "resolve"
    /\ granularity' = args.granularity[1]
    /\ replication_server' =
         IF Truthy(args.replication_server)
         THEN args.replication_server[1]
         ELSE planet_replication_server_url \o granularity' \o "/"
    /\ pc' = "describe"
    /\ UNCHANGED <<planet_replication_server_url, fs, args, sparql_endpoint,
                   container_name, olu_cmd, containerized, olu_result, result,
                   trace, prev, invocations>>

\* lines 80-84
cmd_description(name, g, server) ==
    "Update OSM data for dataset '" \o name \o "' with granularity '" \o g
    \o "' from the OSM replication server '" \o server \o "'."

\* a variant of lines 79-87 that calls execute_olu without showing the
\* description
ShowDescription_Skipped ==
    /\ pc = "describe"
    /\ pc' = "assemble"
    /\ UNCHANGED <<planet_replication_server_url, fs, args, locals, result,
                   trace, prev, invocations>>

\* lines 79-85, and the call of execute_olu at line 87
ShowDescription ==
    /\ pc = "describe"
    /\ trace' = Append(trace,
                       show(cmd_description(args.name, granularity,
                                            replication_server), args.show))
    /\ pc' = "assemble"
    /\ UNCHANGED <<planet_replication_server_url, fs, args, locals, result,
                   prev, invocations>>

\* a variant of lines 87-90 without the `not`
ExecuteReturn_Inverted ==
    /\ pc = "olu_returned"
    /\ result' = IF olu_result[1] THEN Some(FALSE) ELSE Some(TRUE)
    /\ pc' = "done"
    /\ UNCHANGED <<planet_replication_server_url, fs, args, locals, trace,
                   prev, invocations>>

\* lines 87-90
ExecuteReturn ==
    /\ pc = "olu_returned"
    /\ result' = IF ~olu_result[1] THEN Some(FALSE) ELSE Some(TRUE)
    /\ pc' = "done"
    /\ UNCHANGED <<planet_replication_server_url, fs, args, locals, trace,
                   prev, invocations>>

----------------------------------------------------------------------------
(* execute_olu *)

\* a variant of lines 93-99 with lines 97 and 98 exchanged
AssembleInnerCommand_ServerBeforeToken ==
    /\ pc = "assemble"
    /\ sparql_endpoint' =
         "http://" \o args.host_name \o ":" \o FormatInt(args.port)
    /\ container_name' = "olu-" \o args.name
    /\ olu_cmd' = sparql_endpoint' \o " -f " \o replication_server
                    \o " -a " \o args.access_token \o " --qlever"
    /\ pc' = "polyfile"
    /\ UNCHANGED <<planet_replication_server_url, fs, args, granularity,
                   replication_server, containerized, olu_result, result,
                   trace, prev, invocations>>

\* lines 93-99
AssembleInnerCommand ==
    /\ pc = "assemble"
    /\ sparql_endpoint' =
         "http://" \o args.host_name \o ":" \o FormatInt(args.port)
    /\ container_name' = "olu-" \o args.name
    /\ olu_cmd' = sparql_endpoint' \o " -a " \o args.access_token
                    \o " -f " \o replication_server \o " --qlever"
    /\ pc' = "polyfile"
    /\ UNCHANGED <<planet_replication_server_url, fs, args, granularity,
                   replication_server, containerized, olu_result, result,
                   trace, prev, invocations>>

\* variants of lines 101-111: `given` is the test of line 102, `returns`
\* says whether a missing file returns, `polygon_cmd` is olu_cmd after line 111
CheckPolyfileWith(given, returns, polygon_cmd) ==
    /\ pc = "polyfile"
    /\ IF given
       THEN IF ~os_path_exists(args.polyfile[1])
            THEN /\ trace' = trace \o
                       << exists_call(args.polyfile[1]),
                          log_error("No file matching \"" \o args.polyfile[1]
                                    \o "\" found"),
                          log_info(""),
                          log_info("Check if the polyfile exists and if the path is correct.") >>
                 /\ IF returns
                    THEN /\ olu_result' = Some(FALSE)
                         /\ pc' = "olu_returned"
                         /\ UNCHANGED olu_cmd
                    ELSE /\ olu_cmd' = polygon_cmd
                         /\ pc' = "containerize"
                         /\ UNCHANGED olu_result
            ELSE /\ trace' = Append(trace, exists_call(args.polyfile[1]))
                 /\ olu_cmd' = polygon_cmd
                 /\ pc' = "containerize"
                 /\ UNCHANGED olu_result
       ELSE /\ pc' = "containerize"
            /\ UNCHANGED <<trace, olu_cmd, olu_result>>
    /\ UNCHANGED <<planet_replication_server_url, fs, args, granularity,
                   replication_server, sparql_endpoint, container_name,
                   containerized, result, prev, invocations>>

\* a variant of lines 101-111 without the `return False` of line 109
CheckPolyfile_NoReturn ==
    CheckPolyfileWith(Truthy(args.polyfile), FALSE,
                      olu_cmd \o " --polygon " \o args.polyfile[1])

\* a variant of lines 101-111 that tests `args.polyfile is not None`
CheckPolyfile_IsNotNone ==
    CheckPolyfileWith(args.polyfile # None, TRUE,
                      olu_cmd \o " --polygon " \o args.polyfile[1])

\* a variant of lines 101-111 that puts --polygon in front of the command
CheckPolyfile_PolygonFirst ==
    CheckPolyfileWith(Truthy(args.polyfile), TRUE,
                      "--polygon " \o args.polyfile[1] \o " " \o olu_cmd)

\* lines 101-111
CheckPolyfile ==
    /\ pc = "polyfile"
    /\ IF Truthy(args.polyfile)
       THEN IF ~os_path_exists(args.polyfile[1])
            THEN /\ trace' = trace \o
                       << exists_call(args.polyfile[1]),
                          log_error("No file matching \"" \o args.polyfile[1]
                                    \o "\" found"),
                          log_info(""),
                          log_info("Check if the polyfile exists and if the path is correct.") >>
                 /\ olu_result' = Some(FALSE)
                 /\ pc' = "olu_returned"
                 /\ UNCHANGED olu_cmd
            ELSE /\ trace' = Append(trace, exists_call(args.polyfile[1]))
                 /\ olu_cmd' = olu_cmd \o " --polygon " \o args.polyfile[1]
                 /\ pc' = "containerize"
                 /\ UNCHANGED olu_result
       ELSE /\ pc' = "containerize"
            /\ UNCHANGED <<trace, olu_cmd, olu_result>>
    /\ UNCHANGED <<planet_replication_server_url, fs, args, granularity,
                   replication_server, sparql_endpoint, container_name,
                   containerized, result, prev, invocations>>

\* lines 113-122
ContainerizeCommand ==
    /\ pc = "containerize"
    /\ LET call == containerize_call(olu_cmd, container_name)
       IN  /\ trace' = Append(trace, call)
           /\ containerized' = Some(containerize_command(call))
    /\ pc' = "show_cmd"
    /\ UNCHANGED <<planet_replication_server_url, fs, args, granularity,
                   replication_server, sparql_endpoint, container_name,
                   olu_cmd, olu_result, result, prev, invocations>>

\* a variant of lines 124-126 without the early return of lines 125-126
ShowCommand_NoEarlyReturn ==
    /\ pc = "show_cmd"
    /\ trace' = Append(trace, show(containerized[1], args.show))
    /\ pc' = "run"
    /\ UNCHANGED <<planet_replication_server_url, fs, args, granularity,
                   replication_server, sparql_endpoint, container_name,
                   olu_cmd, containerized, olu_result, result, prev,
                   invocations>>

\* lines 124-126
ShowCommand ==
    /\ pc = "show_cmd"
    /\ trace' = Append(trace, show(containerized[1], args.show))
    /\ IF args.show
       THEN /\ olu_result' = Some(TRUE)
            /\ pc' = "olu_returned"
       ELSE /\ pc' = "run"
            /\ UNCHANGED olu_result
    /\ UNCHANGED <<planet_replication_server_url, fs, args, granularity,
                   replication_server, sparql_endpoint, container_name,
                   olu_cmd, containerized, result, prev, invocations>>

\* a variant of lines 128-134 without the `return False` of line 132
RunCommand_SwallowsError ==
    /\ pc = "run"
    /\ \E outcome \in run_command_outcomes :
         IF run_command_raises(outcome)
         THEN /\ trace' = trace \o
                    << run_call(containerized[1], outcome),
                       log_error("Error running osm-live-updates: " \o outcome) >>
              /\ olu_result' = Some(TRUE)
         ELSE /\ trace' = Append(trace, run_call(containerized[1], outcome))
              /\ olu_result' = Some(TRUE)
    /\ pc' = "olu_returned"
    /\ UNCHANGED <<planet_replication_server_url, fs, args, granularity,
                   replication_server, sparql_endpoint, container_name,
                   olu_cmd, containerized, result, prev, invocations>>

\* a variant of lines 128-134 that launches once more after a failure
RunCommand_Retries ==
    /\ pc = "run"
    /\ \E outcome \in run_command_outcomes :
         IF run_command_raises(outcome)
         THEN /\ trace' = trace \o
                    << run_call(containerized[1], outcome),
                       log_error("Error running osm-live-updates: " \o outcome) >>
              /\ IF \E i \in 1..Len(trace) : trace[i].op = "run_command"
                 THEN /\ olu_result' = Some(FALSE)
                      /\ pc' = "olu_returned"
                 ELSE /\ pc' = "run"
                      /\ UNCHANGED olu_result
         ELSE /\ trace' = Append(trace, run_call(containerized[1], outcome))
              /\ olu_result' = Some(TRUE)
              /\ pc' = "olu_returned"
    /\ UNCHANGED <<planet_replication_server_url, fs, args, granularity,
                   replication_server, sparql_endpoint, container_name,
                   olu_cmd, containerized, result, prev, invocations>>

\* lines 128-134
RunCommand ==
    /\ pc = "run"
    /\ \E outcome \in run_command_outcomes :
         IF run_command_raises(outcome)
         THEN /\ trace' = trace \o
                    << run_call(containerized[1], outcome),
                       log_error("Error running osm-live-updates: " \o outcome) >>
              /\ olu_result' = Some(FALSE)
         ELSE /\ trace' = Append(trace, run_call(containerized[1], outcome))
              /\ olu_result' = Some(TRUE)
    /\ pc' = "olu_returned"
    /\ UNCHANGED <<planet_replication_server_url, fs, args, granularity,
                   replication_server, sparql_endpoint, container_name,
                   olu_cmd, containerized, result, prev, invocations>>


----------------------------------------------------------------------------
(* Vocabulary of the properties *)

Calls(op) == { i \in 1..Len(trace) : trace[i].op = op }

Returned == pc \in {"olu_returned", "done"}

PolyfileGiven == Truthy(args.polyfile)

PolyfileMissing == PolyfileGiven /\ args.polyfile[1] \notin fs

NotFoundMessage(path) == "No file matching \"" \o path \o "\" found"

\* execute_olu reported the missing boundary file
ValidationFailed ==
    \E i \in Calls("log.error") :
        \E p \in Paths : trace[i].text = NotFoundMessage(p)

\* the child process was launched and did not exit with status zero
LaunchFailed ==
    \E i \in Calls("run_command") : trace[i].outcome # "exit_zero"

LaunchSucceeded ==
    \E i \in Calls("run_command") : trace[i].outcome = "exit_zero"

\* the replication URL the request asks for
ExpectedReplicationServer ==
    IF args.replication_server \notin {None, Some("")}
    THEN args.replication_server[1]
    ELSE CASE args.granularity = <<"minute">> ->
                  "https://planet.osm.org/replication/minute/"
           [] args.granularity = <<"hour">> ->
                  "https://planet.osm.org/replication/hour/"
           [] args.granularity = <<"day">> ->
                  "https://planet.osm.org/replication/day/"

RECURSIVE JoinWithSpaces(_)
JoinWithSpaces(tokens) ==
    IF Len(tokens) = 1
    THEN tokens[1]
    ELSE tokens[1] \o " " \o JoinWithSpaces(Tail(tokens))

\* the tokens of the inner command that request `a` asks for
ExpectedTokens(a, server) ==
    << "http://" \o a.host_name \o ":" \o ToString(a.port),
       "-a", a.access_token, "-f", server, "--qlever" >>
    \o (IF a.polyfile \notin {None, Some("")}
        THEN <<"--polygon", a.polyfile[1]>> ELSE << >>)

----------------------------------------------------------------------------
(* C1 *)

\* C1, as stated: every invocation with args.show true returns True, also
\* when the polyfile path does not exist on disk.
C1_DescribeAlwaysSucceeds ==
    (pc = "done" /\ args.show) => result = Some(TRUE)

\* C1, amended: an invocation with args.show true returns True for every
\* granularity and override unless a non-empty polyfile path that does not
\* exist is given; in that case it returns False.
C1_DescribeSucceedsIffValid ==
    (pc = "done" /\ args.show) =>
        /\ result \in {Some(TRUE), Some(FALSE)}
        /\ result = Some(TRUE) <=> ~PolyfileMissing

C1_Witness ==
    /\ pc = "done" /\ args.show /\ result = Some(TRUE)
    /\ PolyfileGiven /\ Truthy(args.replication_server)

----------------------------------------------------------------------------
(* C2 *)

\* C2: while args.show is true run_command is never called and the
\* invocation never stands at the launch, on every path.
C2_DescribeNeverRuns ==
    (args.show /\ pc # "idle") =>
        /\ Calls("run_command") = {}
        /\ pc # "run"

C2_Witness ==
    /\ pc = "done" /\ args.show /\ containerized # None
    /\ Calls("run_command") = {}

----------------------------------------------------------------------------
(* C3 *)

\* C3, as stated: when the polyfile is missing the invocation fails, and at
\* that moment no part of the inner command has been assembled, nothing has
\* been containerized and nothing launched.
C3_NothingAssembledOnFailure ==
    ValidationFailed =>
        /\ olu_result = Some(FALSE)
        /\ olu_cmd = ""
        /\ Calls("containerize_command") = {}
        /\ Calls("run_command") = {}

\* C3, amended: when a non-empty polyfile path does not exist the invocation
\* ends in Failed; containerize_command has not been called, no process has
\* been launched and "--polygon" has not been appended; the existence check
\* precedes the containerize call and the launch.  The endpoint, -a, -f and
\* --qlever part of the inner command string is already assembled by then.
C3_FailFast ==
    /\ (PolyfileMissing /\ Returned) => ValidationFailed
    /\ ValidationFailed =>
        /\ Returned
        /\ olu_result = Some(FALSE)
        /\ pc = "done" => result = Some(FALSE)
        /\ Calls("containerize_command") = {}
        /\ Calls("run_command") = {}
        /\ containerized = None
        /\ olu_cmd = JoinWithSpaces(SubSeq(ExpectedTokens(args, replication_server), 1, 6))
    /\ \A i \in Calls("containerize_command") \cup Calls("run_command") :
          PolyfileGiven =>
              \E j \in Calls("os.path.exists") : j < i /\ trace[j].found

C3_Witness ==
    pc = "done" /\ ValidationFailed /\ result = Some(FALSE)

----------------------------------------------------------------------------
(* C4 *)

\* C4: in execute mode with validation passed, execute returns True iff the
\* child exits with status zero; a launch failure or non-zero exit gives
\* False, and once run_command has been called execute_olu has returned
\* (the exception is handled there).
C4_OutcomeMapping ==
    /\ (pc = "done" /\ ~args.show /\ ~PolyfileMissing) =>
          /\ result = Some(TRUE) <=> LaunchSucceeded
          /\ result = Some(FALSE) <=> LaunchFailed
    /\ Calls("run_command") # {} => (Returned /\ olu_result # None)

C4_Witness ==
    /\ pc = "done" /\ ~args.show /\ result = Some(FALSE)
    /\ \E i \in Calls("run_command") : trace[i].outcome = "launch_failure"

----------------------------------------------------------------------------
(* C5 *)

\* C5: run_command is called at most once per invocation, exactly once in an
\* execute-mode invocation whose validation passes, and a failed launch is
\* followed by the return of False, not by another launch.
C5_ExactlyOneLaunch ==
    /\ Cardinality(Calls("run_command")) <= 1
    /\ (pc = "done" /\ ~args.show /\ ~PolyfileMissing) =>
          Cardinality(Calls("run_command")) = 1
    /\ LaunchFailed => (Returned /\ olu_result = Some(FALSE))

C5_Witness ==
    /\ pc = "done" /\ ~args.show /\ Cardinality(Calls("run_command")) = 1
    /\ \E i \in Calls("run_command") : trace[i].outcome = "exit_nonzero"

----------------------------------------------------------------------------
(* C6 *)

\* C6: once resolved, the replication URL is the override verbatim when the
\* override is non-empty, whatever the granularity, and otherwise
\* "https://planet.osm.org/replication/" + granularity + "/"; that URL is
\* what follows -f in the command handed to the command builder.
C6_ReplicationSource ==
    /\ pc \notin {"idle", "resolve"} =>
          replication_server = ExpectedReplicationServer
    /\ \A i \in Calls("containerize_command") :
          trace[i].cmd =
              sparql_endpoint \o " -a " \o args.access_token \o " -f "
              \o ExpectedReplicationServer \o " --qlever"
              \o (IF PolyfileGiven THEN " --polygon " \o args.polyfile[1] ELSE "")

C6_Witness ==
    /\ pc = "done" /\ Calls("containerize_command") # {}
    /\ Truthy(args.replication_server)
    /\ replication_server = args.replication_server[1]

----------------------------------------------------------------------------
(* C7 *)

\* C7: once the polyfile step is passed, validation has failed iff the
\* polyfile argument is non-empty and its path does not exist; for an absent
\* or empty polyfile os.path.exists is not called at all.
C7_ValidationCondition ==
    /\ pc \in {"containerize", "show_cmd", "run", "olu_returned", "done"} =>
          (ValidationFailed <=> (PolyfileGiven /\ args.polyfile[1] \notin fs))
    /\ pc \in {"containerize", "show_cmd", "run"} => ~PolyfileMissing
    /\ ~PolyfileGiven => Calls("os.path.exists") = {}
    /\ \A i \in Calls("os.path.exists") :
          /\ trace[i].path = args.polyfile[1]
          /\ trace[i].found <=> trace[i].path \in fs

C7_Witness ==
    /\ pc = "done" /\ args.polyfile = Some("") /\ result = Some(TRUE)
    /\ Calls("os.path.exists") = {}
    /\ fs = {}

----------------------------------------------------------------------------
(* C8 *)

\* the invocation request `a` asks for
ExpectedCall(a, server) ==
    [op |-> "containerize_command",
     cmd |-> JoinWithSpaces(ExpectedTokens(a, server)),
     container_system |-> "docker",
     run_subcommand |-> "run --rm",
     image_name |-> "olu:latest",
     container_name |-> "olu-" \o a.name,
     volumes |-> << <<"$(pwd)", "/update">> >>,
     working_directory |-> "/update",
     use_bash |-> FALSE]

\* C8: the command handed to the containerization helper is the endpoint,
\* -a, token, -f, replication URL, --qlever and, only with a polyfile,
\* --polygon and the path, in that order; it is wrapped as olu-<name>, image
\* olu:latest, "run --rm", $(pwd) mounted at /update, working directory
\* /update, no shell wrapper; the same request builds the same invocation.
C8_InnerCommandAssembly ==
    /\ Cardinality(Calls("containerize_command")) <= 1
    /\ \A i \in Calls("containerize_command") :
          /\ trace[i] = ExpectedCall(args, ExpectedReplicationServer)
          /\ (prev # None /\ prev[1].args = args) => trace[i] = prev[1].call
    /\ (pc \in {"show_cmd", "run"} \/ (Returned /\ ~ValidationFailed)) =>
          Calls("containerize_command") # {}

C8_Witness ==
    /\ \E i \in Calls("containerize_command") :
          /\ trace[i].cmd = "http://localhost:7001 -a tok -f https://planet.osm.org/replication/day/ --qlever"
          /\ trace[i].container_name = "olu-myregion"
    /\ prev # None /\ prev[1].args = args

----------------------------------------------------------------------------
(* C9 *)

\* requests a and b are the same but for the polyfile, which a supplies and
\* b does not
PolygonToggle(a, b) ==
    /\ Truthy(a.polyfile) /\ ~Truthy(b.polyfile)
    /\ [a EXCEPT !.polyfile = None] = [b EXCEPT !.polyfile = None]

\* C9: of two invocations whose requests differ only in that one supplies an
\* existing polyfile and the other none, the built invocations differ only
\* by the trailing " --polygon <polyfile>" of the inner command.
C9_PolygonToggle ==
    \A i \in Calls("containerize_command") :
        prev # None =>
            /\ PolygonToggle(args, prev[1].args) =>
                  trace[i] = [prev[1].call EXCEPT
                                !.cmd = @ \o " --polygon " \o args.polyfile[1]]
            /\ PolygonToggle(prev[1].args, args) =>
                  prev[1].call = [trace[i] EXCEPT
                                    !.cmd = @ \o " --polygon " \o prev[1].args.polyfile[1]]

C9_Witness ==
    /\ prev # None /\ Calls("containerize_command") # {}
    /\ PolygonToggle(args, prev[1].args)
    /\ prev[1].args.polyfile = None

----------------------------------------------------------------------------
(* C10 *)

ExpectedDescription ==
    "Update OSM data for dataset '" \o args.name \o "' with granularity '"
    \o args.granularity[1] \o "' from the OSM replication server '"
    \o ExpectedReplicationServer \o "'."

\* C10: in every invocation the description naming the dataset, granularity
\* and resolved replication server is the first thing emitted, through
\* show: before it nothing is checked, assembled, built or launched, and no
\* invocation returns without it.
C10_DescriptionFirst ==
    /\ pc \in {"resolve", "describe"} =>
          /\ trace = << >>
          /\ olu_cmd = "" /\ containerized = None
    /\ pc \notin {"idle", "resolve", "describe"} =>
          /\ Len(trace) >= 1
          /\ trace[1].op = "show"
          /\ trace[1].only_show = args.show
          /\ trace[1].text = ExpectedDescription
    /\ \A i \in Calls("os.path.exists") \cup Calls("containerize_command")
                  \cup Calls("run_command") : i > 1

C10_Witness ==
    /\ pc = "done" /\ ValidationFailed
    /\ trace[1].op = "show" /\ Len(trace) > 1

----------------------------------------------------------------------------

Next ==
    \/ Invoke
    \/ ResolveReplicationServer
    \/ ShowDescription
    \/ AssembleInnerCommand
    \/ CheckPolyfile
    \/ ContainerizeCommand
    \/ ShowCommand
    \/ RunCommand
    \/ ExecuteReturn

Spec == Init /\ [][Next]_vars

====
